---- MODULE Spec2Model ----
(***************************************************************************)
(* A model of js/script.js: the client-side behaviour of the portfolio     *)
(* page.  Each component of the page (theme coordinator, active-navigation *)
(* highlight, contact form) is a set of event handlers over its own part   *)
(* of the DOM; the components share no state, so each is checked under its *)
(* own specification, which leaves the other components' state alone.      *)
(***************************************************************************)
EXTENDS Integers, Sequences, FiniteSets, TLC

VARIABLES
    \* ---- theme coordinator (initTheme) ----
    storedTheme,    \* localStorage item 'theme' (NULL when absent)
    prefersDark,    \* matchMedia('(prefers-color-scheme: dark)').matches
    currentTheme,   \* the closure variable currentTheme of initTheme
    dataTheme,      \* documentElement's data-theme attribute
    iconText,       \* textContent of the .theme-icon node
    themeLog,       \* the events handled so far, each with the theme shown after it
    \* ---- active-navigation highlight (initActiveNavHighlight) ----
    sections,       \* the section[id] elements in document order: id, offsetTop, offsetHeight
    scrollY,        \* window.scrollY
    navActive,      \* per .nav-link, whether its classList contains 'active'
    navLastOp,      \* "markup" before the initial update, "init" after it, "scroll" after a scroll event
    \* ---- contact form (initFormValidation, showFormMessage) ----
    fields,         \* the value of the inputs #name, #email, #subject, #message
    formMessages,   \* the .form-message elements in the document, in document order
    timers,         \* the pending removal timers, in firing order: the element each removes
    timerAge,       \* for each pending timer, the milliseconds since it was set
    created,        \* number of message elements created so far (ids 1..created)
    defaultPrevented, \* whether the last submit event had preventDefault() called
    emailCall,      \* the direct call of isValidEmail made, if any: its argument and result
    \* ---- page-ready initialization (DOMContentLoaded handler) ----
    present,        \* the expected elements the page's markup holds
    initPc,         \* index in InitOrder of the next statement of the handler
    initialized,    \* the statements of the handler that have returned
    wired,          \* the components that attached their behaviour
    initThrew,      \* whether a statement raised a TypeError (the handler is abandoned)
    \* ---- visibility-triggered animations (initCounterAnimation, initScrollAnimations) ----
    statText,       \* textContent of the .stat-number element
    statSeen,       \* the isIntersecting values its observer has reported, latest last (the last MaxSeen)
    counted,        \* whether its classList contains 'counted'
    timersStarted,  \* number of setInterval calls made for it
    timerOn,        \* whether an interval timer of it is running
    counter,        \* the closure of animateCounter: target, suffix, current, increment
    updates,        \* number of assignments to its textContent made by the timer
    fadeSeen,       \* the isIntersecting values reported for the .fade-in element (at most one kept)
    fadeObserved,   \* whether the fade-in observer still observes the element
    fadeVisible,    \* whether the element's classList contains 'visible'
    fadeIsHero,     \* whether the .fade-in element is also the .hero-content element
    \* ---- mobile menu and smooth scrolling (initMobileMenu, initSmoothScroll) ----
    menuActive,     \* whether the classList of #navMenu contains 'active'
    toggleActive,   \* whether the classList of #mobileMenuToggle contains 'active'
    headerHeight,   \* offsetHeight of the .header element
    contactTop,     \* offsetTop of the element with id 'contact': <<top>>, or <<>> if the page has none
    linksInMenu,    \* whether the .nav-link elements lie inside #navMenu
    menuLog         \* the last events handled, latest last: what each did

themeVars == <<storedTheme, prefersDark, currentTheme, dataTheme, iconText, themeLog>>
navVars == <<sections, scrollY, navActive, navLastOp>>

formVars == <<fields, formMessages, timers, timerAge, created, defaultPrevented, emailCall>>

initVars == <<present, initPc, initialized, wired, initThrew>>

animVars ==
    <<statText, statSeen, counted, timersStarted, timerOn, counter, updates,
      fadeSeen, fadeObserved, fadeVisible, fadeIsHero>>

\* The state of the components added to the first three.
menuVars == <<menuActive, toggleActive, headerHeight, contactTop, linksInMenu, menuLog>>

restVars == <<initVars, animVars, menuVars>>

vars == <<themeVars, navVars, formVars, restVars>>

\* ------------------------------------------------------------------------
\* Bounds of the model
\* ------------------------------------------------------------------------

\* Number of theme events (toggle clicks, system-preference changes) explored.
MaxThemeEvents == 5

\* Section geometry: offsetTop in {0, GridStep, ..., MaxTop * GridStep} and
\* offsetHeight in {0, GridStep, ..., MaxHeight * GridStep}.
GridStep == 100
MaxTop == 2
MaxHeight == 2

\* Scroll offsets: 0, the last offset below the home threshold, and
\* GridStep, ..., MaxScroll * GridStep.
MaxScroll == 3

\* Number of form submissions explored.
MaxSubmits == 3

\* Longest email string given to isValidEmail.
MaxEmailLen == 5

\* Longest message typed into the message field.
MaxMessageLen == 11

\* Stat targets explored: 0..MaxTarget (and the targets of LargeTargets).
MaxTarget == 12

\* The count of display updates is kept up to MaxUpdates.
MaxUpdates == 52

\* Numbers are kept in units of 2^-FracBits, which holds every double the
\* animation computes exactly (each is at least 1/50, so a multiple of 2^-58).
FracBits == 60

\* The last MaxSeen reports of the counter observer are kept.
MaxSeen == 3

\* The last MaxMenuEvents clicks and resizes are kept.
MaxMenuEvents == 2

\* Time passes in steps of at most TimeStep milliseconds.
TimeStep == 2500

\* A timer callback runs up to MaxLateness milliseconds after it is due.
MaxLateness == 2500

\* ------------------------------------------------------------------------
\* Active-navigation highlight
\* ------------------------------------------------------------------------

\* const scrollPosition = window.scrollY + 100
NavOffset == 100

\* if (window.scrollY < 100)
HomeThreshold == 100

\* The ids of the section[id] elements, in document order.
SectionIds == <<"home", "about", "projects">>

\* The href of each .nav-link, in document order: pairwise distinct; the last
\* one targets no section[id] (an element of another kind, if the page has it).
NavHrefs == <<"#home", "#about", "#projects", "#contact">>

Links == DOMAIN NavHrefs

Tops == {k * GridStep : k \in 0..MaxTop}
Heights == {k * GridStep : k \in 0..MaxHeight}
ScrollOffsets == {0, HomeThreshold - 1} \cup {k * GridStep : k \in 1..MaxScroll}

Layouts ==
    {lay \in [DOMAIN SectionIds -> [id : {"home", "about", "projects"}, top : Tops, height : Heights]] :
        \A i \in DOMAIN SectionIds : lay[i].id = SectionIds[i]}

\* The markup marks at most one link active.
MarkupActive ==
    {[k \in Links |-> FALSE]} \cup {[k \in Links |-> k = a] : a \in Links}

\* scrollPosition >= sectionTop && scrollPosition < sectionTop + sectionHeight
InSectionInclusive(scrollPosition, sectionTop, sectionHeight) ==
    scrollPosition >= sectionTop /\ scrollPosition <= sectionTop + sectionHeight
InSection(scrollPosition, sectionTop, sectionHeight) ==
    scrollPosition >= sectionTop /\ scrollPosition < sectionTop + sectionHeight

\* One link of the inner forEach: classList.remove('active'), then
\* classList.add('active') if its href is the target.
LinkClassKeepingOld(wasActive, href, target) == wasActive \/ href = target
LinkClass(wasActive, href, target) ==
    LET removed == FALSE
    IN IF href = target THEN TRUE ELSE removed

\* navLinks.forEach(link => ...) for one target href.
MarkLinks(act, target) == [k \in Links |-> LinkClass(act[k], NavHrefs[k], target)]

\* sections.forEach(section => ...), from section i on.
RECURSIVE ForEachSection(_, _, _)
ForEachSection(i, act, scrollPosition) ==
    IF i > Len(sections) THEN act
    ELSE LET section == sections[i]
             next == IF InSection(scrollPosition, section.top, section.height)
                       THEN MarkLinks(act, "#" \o section.id)
                       ELSE act
         IN ForEachSection(i + 1, next, scrollPosition)

\* if (window.scrollY < 100)
AtTopOfPageByPosition(y) == y + NavOffset < HomeThreshold
AtTopOfPage(y) == y < HomeThreshold

\* updateActiveNav, for link classes act and window.scrollY = y.
updateActiveNav(act, y) ==
    LET scrollPosition == y + NavOffset
        bySection == ForEachSection(1, act, scrollPosition)
    IN IF AtTopOfPage(y) THEN MarkLinks(bySection, "#home") ELSE bySection

\* The state initActiveNavHighlight leaves behind: the page's layout, the
\* scroll offset it was loaded at, and the initial update applied to the markup.
initActiveNavHighlight ==
    /\ sections \in Layouts
    /\ scrollY \in ScrollOffsets
    /\ \E markup \in MarkupActive : navActive = updateActiveNav(markup, scrollY)
    /\ navLastOp = "init"

\* A scroll event: the window is at offset y and updateActiveNav runs.
Scroll(y) ==
    /\ scrollY' = y
    /\ navActive' = updateActiveNav(navActive, y)
    /\ navLastOp' = "scroll"
    /\ UNCHANGED sections
    /\ UNCHANGED <<themeVars, formVars, restVars>>

\* The component's state while another component is being checked.
NavAtRest ==
    /\ sections = [i \in DOMAIN SectionIds |-> [id |-> SectionIds[i], top |-> 0, height |-> 0]]
    /\ scrollY = 0
    /\ navActive = [k \in Links |-> NavHrefs[k] = "#home"]
    /\ navLastOp = "init"

\* ------------------------------------------------------------------------
\* Contact form
\* ------------------------------------------------------------------------

\* Strings are sequences of one-character strings.

\* What \s and String.prototype.trim treat as white space (of the characters used).
IsWhitespace(c) == c \in {" ", "\t", "\n"}

RECURSIVE trimStart(_)
trimStart(str) ==
    IF str # <<>> /\ IsWhitespace(Head(str)) THEN trimStart(Tail(str)) ELSE str

RECURSIVE trimEnd(_)
trimEnd(str) ==
    IF str # <<>> /\ IsWhitespace(str[Len(str)])
      THEN trimEnd(SubSeq(str, 1, Len(str) - 1))
      ELSE str

\* String.prototype.trim
trim(str) == trimEnd(trimStart(str))

\* The character class [^\s@]
EmailCharAllowingSpace(c) == c # "@"
EmailChar(c) == ~IsWhitespace(c) /\ c # "@"

\* /^[^\s@]+@[^\s@]+\.[^\s@]+$/ as an automaton over positions in the
\* pattern: 0 start, 1 inside the first [^\s@]+, 2 after '@', 3 inside the
\* second [^\s@]+, 4 after '\.', 5 inside the third [^\s@]+ (accepting).
EmailRegexStep(q, c) ==
    CASE q = 0 -> IF EmailChar(c) THEN {1} ELSE {}
      [] q = 1 -> (IF EmailChar(c) THEN {1} ELSE {}) \cup (IF c = "@" THEN {2} ELSE {})
      [] q = 2 -> IF EmailChar(c) THEN {3} ELSE {}
      [] q = 3 -> (IF EmailChar(c) THEN {3} ELSE {}) \cup (IF c = "." THEN {4} ELSE {})
      [] q = 4 -> IF EmailChar(c) THEN {5} ELSE {}
      [] q = 5 -> IF EmailChar(c) THEN {5} ELSE {}

RECURSIVE EmailRegexRun(_, _)
EmailRegexRun(qs, str) ==
    IF str = <<>> THEN qs
    ELSE EmailRegexRun(UNION {EmailRegexStep(q, Head(str)) : q \in qs}, Tail(str))

\* emailRegex.test(email)
isValidEmail(email) == 5 \in EmailRegexRun({0}, email)

\* The texts of the submit handler.
NameRequired == "Name is required"
EmailRequired == "Email is required"
EmailInvalid == "Please enter a valid email address"
SubjectRequired == "Subject is required"
MessageRequired == "Message is required"
MessageTooShort == "Message must be at least 10 characters long"
SuccessText == "Thank you for your message! I'll get back to you soon."

\* message.length < 10
MinMessageLength == 10

\* errors.push(text); isValid = false
PushError(v, text) == [isValid |-> FALSE, errors |-> Append(v.errors, text)]

\* if (!name) ...
CheckName(v, name) == IF name = <<>> THEN PushError(v, NameRequired) ELSE v

\* if (!email) ... else if (!isValidEmail(email)) ...
CheckEmail(v, email) ==
    IF email = <<>> THEN PushError(v, EmailRequired)
    ELSE IF ~isValidEmail(email) THEN PushError(v, EmailInvalid)
    ELSE v

\* if (!subject) ...
CheckSubject(v, subject) == IF subject = <<>> THEN PushError(v, SubjectRequired) ELSE v

\* if (!message) ... else if (message.length < 10) ...
CheckMessageAtMost(v, message) ==
    IF message = <<>> THEN PushError(v, MessageRequired)
    ELSE IF Len(message) <= MinMessageLength THEN PushError(v, MessageTooShort)
    ELSE v
CheckMessage(v, message) ==
    IF message = <<>> THEN PushError(v, MessageRequired)
    ELSE IF Len(message) < MinMessageLength THEN PushError(v, MessageTooShort)
    ELSE v

\* The validation block of the submit handler, on the trimmed values.
Validate(name, email, subject, message) ==
    CheckMessage(
        CheckSubject(
            CheckEmail(
                CheckName([isValid |-> TRUE, errors |-> <<>>], name),
                email),
            subject),
        message)

\* errors.join('<br>'): the texts with a '<br>' between neighbours.
RECURSIVE Join(_)
Join(errors) ==
    IF errors = <<>> THEN <<>>
    ELSE IF Len(errors) = 1 THEN <<errors[1]>>
    ELSE <<errors[1], "<br>">> \o Join(Tail(errors))

\* showFormMessage's effect on the document: the first .form-message, if any,
\* is removed and a new element is appended to the form.
showFormMessageKeepingOld(messages, id, html, type) ==
    Append(messages, [id |-> id, type |-> type, html |-> html])
showFormMessage(messages, id, html, type) ==
    LET remaining == IF messages # <<>> THEN Tail(messages) ELSE messages
    IN Append(remaining, [id |-> id, type |-> type, html |-> html])

\* contactForm.reset(): every input back to its (empty) default value.
ResetFields == [name |-> <<>>, email |-> <<>>, subject |-> <<>>, message |-> <<>>]

\* The fields after the handler: contactForm.reset() on success only.
FieldsAfterSubmitAlwaysReset(isValid, old) == ResetFields
FieldsAfterSubmit(isValid, old) == IF isValid THEN ResetFields ELSE old

\* The submit handler of #contactForm.
Submit ==
    /\ created < MaxSubmits
    /\ defaultPrevented' = TRUE
    /\ LET name == trim(fields.name)
           email == trim(fields.email)
           subject == trim(fields.subject)
           message == trim(fields.message)
           v == Validate(name, email, subject, message)
           id == created + 1
       IN /\ formMessages' =
                 IF v.isValid
                   THEN showFormMessage(formMessages, id, <<SuccessText>>, "success")
                   ELSE showFormMessage(formMessages, id, Join(v.errors), "error")
          /\ fields' = FieldsAfterSubmit(v.isValid, fields)
          /\ timers' = Append(timers, id)
          /\ timerAge' = Append(timerAge, 0)
          /\ created' = id
    /\ UNCHANGED emailCall
    /\ UNCHANGED <<themeVars, navVars, restVars>>

\* setTimeout(..., 5000)
MessageDelay == 5000

\* messageElement.remove(), for the element with this id: a no-op when it is
\* no longer in the document.
RemoveDisplayed(messages, id) == IF messages # <<>> THEN Tail(messages) ELSE messages
RemoveElement(messages, id) == SelectSeq(messages, LAMBDA el : el.id # id)

\* The callback of setTimeout(..., 5000): messageElement.remove().  The
\* timers all have the same delay, so they fire in the order they were set.
MessageTimeout ==
    /\ timers # <<>>
    /\ formMessages' = RemoveElement(formMessages, Head(timers))
    /\ timers' = Tail(timers)
    /\ timerAge' = Tail(timerAge)
    /\ UNCHANGED <<fields, created, defaultPrevented, emailCall>>
    /\ UNCHANGED <<themeVars, navVars, restVars>>

\* The same callback in time: the runtime calls it when its 5000 ms are over,
\* or later.
MessageTimerDue ==
    /\ timerAge # <<>>
    /\ Head(timerAge) >= MessageDelay
    /\ MessageTimeout

\* TimeStep milliseconds pass; a callback is late by MaxLateness at most.
TimePasses ==
    /\ timerAge # <<>>
    /\ Head(timerAge) + TimeStep <= MessageDelay + MaxLateness
    /\ timerAge' = [i \in DOMAIN timerAge |-> timerAge[i] + TimeStep]
    /\ UNCHANGED <<fields, formMessages, timers, created, defaultPrevented, emailCall>>
    /\ UNCHANGED <<themeVars, navVars, restVars>>

\* The user edits one field.
Type(field, value) ==
    /\ fields' = [fields EXCEPT ![field] = value]
    /\ UNCHANGED <<formMessages, timers, timerAge, created, defaultPrevented, emailCall>>
    /\ UNCHANGED <<themeVars, navVars, restVars>>

\* A direct call of isValidEmail on the email field's text.
CallIsValidEmail ==
    /\ emailCall = <<>>
    /\ emailCall' = <<[email |-> fields.email, result |-> isValidEmail(fields.email)]>>
    /\ UNCHANGED <<fields, formMessages, timers, timerAge, created, defaultPrevented>>
    /\ UNCHANGED <<themeVars, navVars, restVars>>

\* The form inputs explored.
Xs(n) == [i \in 1..n |-> "x"]
EmailAlphabet == {"a", "b", "@", ".", " "}
EmailStrings == UNION {[1..k -> EmailAlphabet] : k \in 0..MaxEmailLen}
NameInputs == {<<>>, <<" ">>, <<" ", "a">>}
EmailInputs ==
    {<<>>, <<" ">>, <<"a", "@", "b">>, <<"a", "@", "b", ".", "a">>,
     <<" ", "a", "@", "b", ".", "a", " ">>}
SubjectInputs == {<<>>, <<"\t">>, <<"s", " ">>}
MessageInputs ==
    {Xs(n) : n \in 0..MaxMessageLen}
      \cup {<<" ">>, <<" ">> \o Xs(9) \o <<" ">>, Xs(4) \o <<" ">> \o Xs(5),
            <<"\n">> \o Xs(10)}
TypedMessages == {<<>>, Xs(9), Xs(10), <<" ">> \o Xs(9) \o <<" ">>}
Typed(field) ==
    CASE field = "name" -> NameInputs
      [] field = "email" -> EmailInputs
      [] field = "subject" -> SubjectInputs
      [] field = "message" -> TypedMessages

\* The forms whose validation is explored: every email string beside valid
\* other fields, and every combination of the inputs above.
ValidationInputs ==
    {[name |-> <<"a">>, email |-> e, subject |-> <<"s">>, message |-> Xs(10)] :
        e \in EmailStrings}
      \cup [name : NameInputs, email : EmailInputs,
            subject : SubjectInputs, message : MessageInputs]

\* The form as the page loads: empty fields, no message, no submit event yet.
initFormValidation ==
    /\ formMessages = <<>>
    /\ timers = <<>>
    /\ timerAge = <<>>
    /\ created = 0
    /\ defaultPrevented = FALSE
    /\ emailCall = <<>>

FormAtRest == initFormValidation /\ fields = ResetFields

\* ------------------------------------------------------------------------
\* Page-ready initialization
\* ------------------------------------------------------------------------

\* The elements the script looks up while initializing.  The .theme-icon is
\* looked up inside #themeToggle.
Elements ==
    {"themeToggle", "themeIcon", "mobileMenuToggle", "navMenu",
     "contactForm", "header", "hero", "shape"}

Markups == {m \in SUBSET Elements : "themeIcon" \in m => "themeToggle" \in m}

\* The statements of the DOMContentLoaded handler, in order.
InitOrder ==
    <<"initTheme", "initSmoothScroll", "initActiveNavHighlight", "initMobileMenu",
      "initScrollAnimations", "initFormValidation", "initScrollEffects",
      "initParallaxEffect", "initCounterAnimation", "initCardParallax",
      "anchorSmoothScroll">>

\* Whether statement fn raises a TypeError on a page holding the elements els.
\* initTheme dereferences #themeToggle (themeToggle.querySelector) and the icon
\* (icon.textContent = ...) unguarded; the other statements only dereference
\* what they have checked, or lists that may be empty.
Throws(fn, els) ==
    IF fn = "initTheme"
      THEN "themeToggle" \notin els \/ "themeIcon" \notin els
      ELSE FALSE

\* Whether statement fn, having returned, attached its behaviour.
Attaches(fn, els) ==
    CASE fn = "initMobileMenu" -> "mobileMenuToggle" \in els /\ "navMenu" \in els
      [] fn = "initFormValidation" -> "contactForm" \in els
      [] fn = "initParallaxEffect" -> "hero" \in els /\ "shape" \in els
      [] OTHER -> TRUE

\* The page-ready signal has arrived and no statement has run yet.
PageReady ==
    /\ present \in Markups
    /\ initPc = 1
    /\ initialized = {}
    /\ wired = {}
    /\ initThrew = FALSE

InitAtRest ==
    /\ present = Elements
    /\ initPc = Len(InitOrder) + 1
    /\ initialized = {InitOrder[i] : i \in DOMAIN InitOrder}
    /\ wired = initialized
    /\ initThrew = FALSE


\* ------------------------------------------------------------------------
\* IEEE 754 double arithmetic on non-negative numbers
\* ------------------------------------------------------------------------

\* A natural number is the sequence of its binary digits, lowest first, with
\* no leading zero (0 is the empty sequence).

\* Significant bits of a double.
DoubleBits == 53

Zeros(k) == [i \in 1..k |-> 0]

RECURSIVE BitsOfInt(_)
BitsOfInt(n) == IF n = 0 THEN <<>> ELSE <<n % 2>> \o BitsOfInt(n \div 2)

RECURSIVE IntOfBits(_)
IntOfBits(b) == IF b = <<>> THEN 0 ELSE Head(b) + 2 * IntOfBits(Tail(b))

BitAt(b, i) == IF i <= Len(b) THEN b[i] ELSE 0

RECURSIVE BitsStrip(_)
BitsStrip(b) ==
    IF b # <<>> /\ b[Len(b)] = 0 THEN BitsStrip(SubSeq(b, 1, Len(b) - 1)) ELSE b

\* The arithmetic works on limbs of LimbBits bits at a time.
LimbBits == 8
LimbBase == 2 ^ LimbBits

\* The element of a one-element set; an operand is computed once by ranging
\* over the set that holds it.
The(S) == CHOOSE v \in S : TRUE

\* The limb of b that starts at bit i, and the LimbBits bits of a limb.
Limb(b, i) == The({IntOfBits(l) : l \in {[j \in 1..LimbBits |-> BitAt(b, i + j - 1)]}})
BitsOfLimb(n) == The({l \o Zeros(LimbBits - Len(l)) : l \in {BitsOfInt(n)}})

RECURSIVE BitsAddFrom(_, _, _, _)
BitsAddFrom(a, b, i, carry) ==
    IF i > Len(a) /\ i > Len(b)
      THEN BitsOfInt(carry)
      ELSE The({BitsOfLimb(t % LimbBase) \o BitsAddFrom(a, b, i + LimbBits, t \div LimbBase) :
                  t \in {Limb(a, i) + Limb(b, i) + carry}})

BitsAdd(a, b) ==
    The({BitsStrip(sum) : sum \in {BitsAddFrom(x, y, 1, 0) : x \in {a}, y \in {b}}})

BitsGeq(a, b) ==
    \E x \in {a}, y \in {b} :
        IF Len(x) # Len(y) THEN Len(x) > Len(y)
        ELSE LET diff == {i \in DOMAIN x : x[i] # y[i]}
             IN diff = {} \/ x[CHOOSE i \in diff : \A j \in diff : j <= i] = 1

\* Long division of x by the small number d, from the limb that ends at bit i
\* down, with the remainder r and the quotient bits q of the limbs above:
\* quotient and remainder.
RECURSIVE BitsDivFrom(_, _, _, _, _)
BitsDivFrom(x, i, d, r, q) ==
    IF i = 0 THEN [q |-> BitsStrip(q), r |-> r]
    ELSE The({BitsDivFrom(x, i - LimbBits, d, v % d, BitsOfLimb(v \div d) \o q) :
                v \in {r * LimbBase + Limb(x, i - LimbBits + 1)}})

BitsDiv(x, d) ==
    The({BitsDivFrom(y, LimbBits * ((Len(y) + LimbBits - 1) \div LimbBits), d, 0, <<>>) :
           y \in {x}})

\* Round x to nearest, ties to even, to DoubleBits significant bits; sticky
\* says that the exact value lies above x.
RoundBits(x, sticky) ==
    IF Len(x) <= DoubleBits THEN x
    ELSE LET d == Len(x) - DoubleBits
             kept == SubSeq(x, d + 1, Len(x))
             rest == sticky \/ \E i \in 1..(d - 1) : x[i] = 1
             up == x[d] = 1 /\ (rest \/ kept[1] = 1)
         IN Zeros(d) \o (IF up THEN BitsAdd(kept, <<1>>) ELSE kept)

RoundToDouble(x, sticky) == The({RoundBits(y, sticky) : y \in {x}})

\* The integer n in units of 2^-FracBits.
FixedOfInt(n) == IF n = 0 THEN <<>> ELSE Zeros(FracBits) \o BitsOfInt(n)

\* A Number is [nan, bits]: NaN, or the double of value bits * 2^-FracBits.
NaN == [nan |-> TRUE, bits |-> <<>>]
Num(n) == [nan |-> FALSE, bits |-> FixedOfInt(n)]

\* a / d for an integer-valued a and a small integer d > 0.
DoubleDiv(a, d) ==
    IF a.nan THEN NaN
    ELSE LET dv == BitsDiv(a.bits, d)
         IN [nan |-> FALSE, bits |-> RoundToDouble(dv.q, dv.r # 0)]

\* a + b
DoubleAdd(a, b) ==
    IF a.nan \/ b.nan THEN NaN
    ELSE [nan |-> FALSE, bits |-> RoundToDouble(BitsAdd(a.bits, b.bits), FALSE)]

\* a >= b
DoubleGeq(a, b) == ~a.nan /\ ~b.nan /\ BitsGeq(a.bits, b.bits)

\* Math.floor(a)
DoubleFloor(a) ==
    IF a.nan THEN NaN
    ELSE [nan |-> FALSE,
          bits |-> IF Len(a.bits) <= FracBits THEN <<>>
                   ELSE Zeros(FracBits) \o SubSeq(a.bits, FracBits + 1, Len(a.bits))]

\* The integer an integer-valued Number holds.
IntOf(a) ==
    IF Len(a.bits) <= FracBits THEN 0
    ELSE The({IntOfBits(whole) : whole \in {SubSeq(a.bits, FracBits + 1, Len(a.bits))}})

\* ------------------------------------------------------------------------
\* Visibility-triggered animations
\* ------------------------------------------------------------------------

\* target / 50
CounterSteps == 50

DigitChars == <<"0", "1", "2", "3", "4", "5", "6", "7", "8", "9">>

\* \d
IsDigit(c) == \E i \in DOMAIN DigitChars : DigitChars[i] = c

DigitValue(c) == (CHOOSE i \in DOMAIN DigitChars : DigitChars[i] = c) - 1

\* The decimal numeral of n.
RECURSIVE Decimal(_)
Decimal(n) ==
    IF n < 10 THEN <<DigitChars[n + 1]>>
    ELSE Decimal(n \div 10) \o <<DigitChars[(n % 10) + 1]>>

RECURSIVE DigitsValue(_, _)
DigitsValue(str, acc) ==
    IF str = <<>> THEN acc ELSE DigitsValue(Tail(str), 10 * acc + DigitValue(Head(str)))

\* parseInt of a string of digits: NaN when it is empty.
parseInt(str) == IF str = <<>> THEN NaN ELSE Num(DigitsValue(str, 0))

\* String(n) for an integer-valued Number or NaN.
NumberText(a) == IF a.nan THEN <<"N", "a", "N">> ELSE The({Decimal(n) : n \in {IntOf(a)}})

\* The closure animateCounter builds from the element's text.
animateCounter(text) ==
    LET target == parseInt(SelectSeq(text, IsDigit))
        suffix == SelectSeq(text, LAMBDA c : ~IsDigit(c))
    IN [target |-> target,
        suffix |-> suffix,
        current |-> Num(0),
        increment |-> DoubleDiv(target, CounterSteps)]

NoCounter == [target |-> NaN, suffix |-> <<>>, current |-> Num(0), increment |-> NaN]

\* The guard of the counter observer's callback.
ShouldCountIgnoringMark(isIntersecting, isCounted) == isIntersecting
ShouldCount(isIntersecting, isCounted) == isIntersecting /\ ~isCounted

\* The stat texts explored.
LargeTargets == {50, 100, 250}
StatTexts ==
    {Decimal(n) \o suffix : n \in (0..MaxTarget) \cup LargeTargets, suffix \in {<<>>, <<"+">>}}
      \cup {<<"N", "/", "A">>, <<"1", ",", "0", "k">>}

\* The newest MaxSeen reports of seen.
LastReports(seen) ==
    IF Len(seen) <= MaxSeen THEN seen ELSE SubSeq(seen, Len(seen) - MaxSeen + 1, Len(seen))

\* The state initCounterAnimation and initScrollAnimations leave behind: one
\* .stat-number and one .fade-in element, observed, nothing reported yet.
initAnimations ==
    /\ statText \in StatTexts
    /\ statSeen = <<>>
    /\ counted = FALSE
    /\ timersStarted = 0
    /\ timerOn = FALSE
    /\ counter = NoCounter
    /\ updates = 0
    /\ fadeSeen = <<>>
    /\ fadeObserved = TRUE
    /\ fadeVisible = FALSE
    /\ fadeIsHero \in BOOLEAN

\* The callback of the counter observer, for an entry of the stat element
\* that reports isIntersecting (the observer reports changes).
StatIntersection(isIntersecting) ==
    /\ \A i \in DOMAIN statSeen : i = Len(statSeen) => statSeen[i] # isIntersecting
    /\ statSeen' = LastReports(Append(statSeen, isIntersecting))
    /\ IF ShouldCount(isIntersecting, counted)
         THEN /\ counted' = TRUE
              /\ counter' = animateCounter(statText)
              /\ timersStarted' = timersStarted + 1
              /\ timerOn' = TRUE
         ELSE UNCHANGED <<counted, counter, timersStarted, timerOn>>
    /\ UNCHANGED <<statText, updates, fadeSeen, fadeObserved, fadeVisible, fadeIsHero>>
    /\ UNCHANGED <<themeVars, navVars, formVars, initVars, menuVars>>

\* The callback of setInterval in animateCounter.
CounterTick ==
    /\ timerOn
    /\ \E current \in {DoubleAdd(counter.current, counter.increment)} :
          /\ counter' = [counter EXCEPT !.current = current]
          /\ IF DoubleGeq(current, counter.target)
               THEN /\ statText' = NumberText(counter.target) \o counter.suffix
                    /\ timerOn' = FALSE
               ELSE /\ statText' = NumberText(DoubleFloor(current)) \o counter.suffix
                    /\ UNCHANGED timerOn
    /\ updates' = IF updates < MaxUpdates THEN updates + 1 ELSE updates
    /\ UNCHANGED <<statSeen, counted, timersStarted, fadeSeen, fadeObserved, fadeVisible, fadeIsHero>>
    /\ UNCHANGED <<themeVars, navVars, formVars, initVars, menuVars>>

\* The 'visible' class after the fade-in callback handled an entry.
FadeClass(wasVisible, isIntersecting) == wasVisible \/ isIntersecting

\* The callback of the fade-in observer, for an entry of the element; an
\* element no longer observed gets no entry.
FadeIntersection(isIntersecting) ==
    /\ fadeObserved
    /\ \A i \in DOMAIN fadeSeen : fadeSeen[i] # isIntersecting
    /\ fadeSeen' = <<isIntersecting>>
    /\ fadeVisible' = FadeClass(fadeVisible, isIntersecting)
    /\ fadeObserved' = IF isIntersecting THEN FALSE ELSE fadeObserved
    /\ UNCHANGED <<statText, statSeen, counted, timersStarted, timerOn, counter, updates, fadeIsHero>>
    /\ UNCHANGED <<themeVars, navVars, formVars, initVars, menuVars>>

\* The 'load' listener of the window: .hero-content, where the page has it,
\* gets the class 'visible'.  The page's one .hero-content is the .fade-in
\* element or another element.
WindowLoad ==
    /\ fadeVisible' = (fadeVisible \/ fadeIsHero)
    /\ UNCHANGED <<statText, statSeen, counted, timersStarted, timerOn, counter, updates,
                   fadeSeen, fadeObserved, fadeIsHero>>
    /\ UNCHANGED <<themeVars, navVars, formVars, initVars, menuVars>>

AnimAtRest ==
    /\ statText = <<"0">>
    /\ statSeen = <<>>
    /\ counted = FALSE
    /\ timersStarted = 0
    /\ timerOn = FALSE
    /\ counter = NoCounter
    /\ updates = 0
    /\ fadeSeen = <<>>
    /\ fadeObserved = TRUE
    /\ fadeVisible = FALSE
    /\ fadeIsHero = FALSE

\* ------------------------------------------------------------------------
\* Mobile menu and smooth scrolling
\* ------------------------------------------------------------------------

\* if (window.innerWidth > 768)
MobileBreakpoint == 768

\* The innerWidth values a resize event reports.
ResizeWidths == {MobileBreakpoint - 1, MobileBreakpoint, MobileBreakpoint + 1}

\* The offsetHeight values of the header.
HeaderHeights == {GridStep \div 2, GridStep}

\* The ids the hrefs of the links name.
LinkTargetIds == {"home", "about", "projects", "contact"}

\* href.startsWith('#')
StartsWithHash(href) == \E id \in LinkTargetIds \cup {""} : href = "#" \o id

\* href.substring(1)
TargetId(href) == CHOOSE id \in LinkTargetIds \cup {""} : href = "#" \o id

\* document.getElementById(id), document.querySelector('#' + id): the sections,
\* and the 'contact' element where the page has it.
ElementExists(id) ==
    \/ \E i \in DOMAIN sections : sections[i].id = id
    \/ id = "contact" /\ contactTop # <<>>

\* targetElement.offsetTop
OffsetTop(id) ==
    IF id = "contact" THEN contactTop[1]
    ELSE sections[CHOOSE i \in DOMAIN sections : sections[i].id = id].top

\* targetElement.offsetTop - headerHeight
TargetPosition(top, height) == top - height

\* if (window.innerWidth > 768)
IsWideInclusive(innerWidth) == innerWidth >= MobileBreakpoint
IsWide(innerWidth) == innerWidth > MobileBreakpoint

\* !navMenu.contains(e.target) && !mobileMenuToggle.contains(e.target)
IsOutsideOfMenuOnly(inMenu, inToggle) == ~inMenu
IsOutside(inMenu, inToggle) == ~inMenu /\ ~inToggle

\* classList.toggle('active')
ToggleClassAdding(wasActive) == TRUE
ToggleClass(wasActive) == ~wasActive

\* What the handlers of one event have done so far: the two 'active' classes,
\* whether preventDefault was called, the positions passed to window.scrollTo,
\* the handlers that called closeMobileMenu, and whether a handler raised.
Handling ==
    [menu |-> menuActive, toggle |-> toggleActive, prevented |-> FALSE,
     scrolls |-> <<>>, closedBy |-> {}, threw |-> FALSE]

closeMobileMenu(h, caller) ==
    LET called == [h EXCEPT !.closedBy = @ \cup {caller}]
    IN IF "navMenu" \in present /\ "mobileMenuToggle" \in present
         THEN [called EXCEPT !.menu = FALSE, !.toggle = FALSE]
         ELSE called

\* The click listener initMobileMenu puts on the toggle button.
ToggleListener(h) ==
    IF "initMobileMenu" \in wired
      THEN [h EXCEPT !.menu = ToggleClass(@), !.toggle = ToggleClass(@)]
      ELSE h

\* The click listener initMobileMenu puts on the document.
DocumentClickListener(h, inMenu, inToggle) ==
    IF "initMobileMenu" \in wired /\ IsOutside(inMenu, inToggle)
      THEN closeMobileMenu(h, "document")
      ELSE h

\* window.scrollTo({top: targetElement.offsetTop - header.offsetHeight, ...}):
\* a page without .header raises a TypeError at .offsetHeight.
ScrollToTarget(h, id) ==
    IF "header" \in present
      THEN [h EXCEPT !.scrolls = Append(@, TargetPosition(OffsetTop(id), headerHeight))]
      ELSE [h EXCEPT !.threw = TRUE]

\* The click listener initSmoothScroll puts on each .nav-link.
SmoothScrollListener(h, href) ==
    IF ~StartsWithHash(href) THEN h
    ELSE LET prevented == [h EXCEPT !.prevented = TRUE]
             scrolled == ScrollToTarget(prevented, TargetId(href))
         IN IF ~ElementExists(TargetId(href)) THEN prevented
            ELSE IF scrolled.threw THEN scrolled
            ELSE closeMobileMenu(scrolled, "navLink")

\* The click listener the page-ready handler puts on each a[href^="#"].
AnchorListener(h, href) ==
    IF ~StartsWithHash(href) \/ href = "#" \/ ~ElementExists(TargetId(href)) THEN h
    ELSE ScrollToTarget([h EXCEPT !.prevented = TRUE], TargetId(href))

\* The entry of menuLog for an event.
MenuEvent(kind, href, innerWidth, h) ==
    [kind |-> kind, href |-> href, innerWidth |-> innerWidth,
     wasMenu |-> menuActive, wasToggle |-> toggleActive,
     menu |-> h.menu, toggle |-> h.toggle, prevented |-> h.prevented,
     scrolls |-> h.scrolls, closedBy |-> h.closedBy, threw |-> h.threw]

LastEvents(log) ==
    IF Len(log) <= MaxMenuEvents THEN log
    ELSE SubSeq(log, Len(log) - MaxMenuEvents + 1, Len(log))

\* The handlers of an event have run and left h.
Handled(kind, href, innerWidth, h) ==
    /\ menuActive' = h.menu
    /\ toggleActive' = h.toggle
    /\ menuLog' = LastEvents(Append(menuLog, MenuEvent(kind, href, innerWidth, h)))
    /\ UNCHANGED <<headerHeight, contactTop, linksInMenu>>
    /\ UNCHANGED <<themeVars, navVars, formVars, initVars, animVars>>

\* A click on the toggle button: its listener, then the document's.
ToggleButtonClick ==
    /\ "mobileMenuToggle" \in present
    /\ Handled("toggleClick", "", 0,
               DocumentClickListener(ToggleListener(Handling), FALSE, TRUE))

\* A click on the menu panel, beside its links.
MenuPanelClick ==
    /\ "navMenu" \in present
    /\ Handled("panelClick", "", 0, DocumentClickListener(Handling, TRUE, FALSE))

\* A click outside the menu panel and the toggle button, on no link.
OutsideClick ==
    Handled("outsideClick", "", 0, DocumentClickListener(Handling, FALSE, FALSE))

\* A click on the .nav-link k: its two listeners in the order they were
\* added, then the document's.
NavLinkClick(k) ==
    LET href == NavHrefs[k]
        inMenu == linksInMenu /\ "navMenu" \in present
    IN Handled("navLinkClick", href, 0,
               DocumentClickListener(AnchorListener(SmoothScrollListener(Handling, href), href),
                                     inMenu, FALSE))

\* The resize listener of the window.
Resize(innerWidth) ==
    Handled("resize", "", innerWidth,
            IF IsWide(innerWidth) THEN closeMobileMenu(Handling, "resize") ELSE Handling)

\* The state the page-ready handler leaves behind on a page holding els, when
\* no statement raised.
PageInitialized(els) ==
    /\ present = els
    /\ initPc = Len(InitOrder) + 1
    /\ initialized = {InitOrder[i] : i \in DOMAIN InitOrder}
    /\ wired = {fn \in initialized : Attaches(fn, els)}
    /\ initThrew = FALSE

\* The pages of the menu component: with or without the toggle button, the
\* menu panel and the header.
MenuMarkups == {Elements \ absent : absent \in SUBSET {"mobileMenuToggle", "navMenu", "header"}}

\* Sections of one viewport each, stacked from the top of the page.
StackedLayout ==
    [i \in DOMAIN SectionIds |-> [id |-> SectionIds[i], top |-> (i - 1) * GridStep, height |-> GridStep]]

\* The state initMobileMenu and initSmoothScroll leave behind: the menu closed.
initMobileMenu ==
    /\ menuActive = FALSE
    /\ toggleActive = FALSE
    /\ headerHeight \in HeaderHeights
    /\ contactTop \in {<<>>, <<Len(SectionIds) * GridStep>>}
    /\ linksInMenu \in BOOLEAN
    /\ menuLog = <<>>

MenuAtRest ==
    /\ menuActive = FALSE
    /\ toggleActive = FALSE
    /\ headerHeight = GridStep
    /\ contactTop = <<>>
    /\ linksInMenu = TRUE
    /\ menuLog = <<>>

RestAtRest == InitAtRest /\ AnimAtRest /\ MenuAtRest

\* ------------------------------------------------------------------------
\* Theme coordinator
\* ------------------------------------------------------------------------

\* What localStorage.getItem returns for an absent key.
NULL == "<null>"

\* The values the page itself ever stores under 'theme', or nothing.
StoredThemes == {NULL, "light", "dark"}

\* JavaScript truthiness of a string-or-null value.
Truthy(v) == v # NULL /\ v # ""

\* let currentTheme = savedTheme || (prefersDark ? 'dark' : 'light')
ResolveThemeIgnoringSaved(savedTheme, dark) == IF dark THEN "dark" ELSE "light"
ResolveTheme(savedTheme, dark) ==
    IF Truthy(savedTheme) THEN savedTheme
    ELSE IF dark THEN "dark" ELSE "light"

\* icon.textContent = theme === 'dark' ? sun : moon
updateThemeIcon(theme) == IF theme = "dark" THEN "sun" ELSE "moon"

\* currentTheme === 'light' ? 'dark' : 'light'
FlipTheme(theme) == IF theme = "light" THEN "dark" ELSE "light"

\* The guard of the system-preference handler: !localStorage.getItem('theme')
FollowsSystemAlways(saved) == TRUE
FollowsSystem(saved) == ~Truthy(saved)

LogEntry(op, theme) == [op |-> op, shown |-> theme]

\* The state initTheme leaves behind.
initTheme ==
    /\ storedTheme \in StoredThemes
    /\ prefersDark \in BOOLEAN
    /\ currentTheme = ResolveTheme(storedTheme, prefersDark)
    /\ dataTheme = currentTheme
    /\ iconText = updateThemeIcon(currentTheme)
    /\ themeLog = <<LogEntry("init", dataTheme)>>

\* The click handler of #themeToggle.
ThemeToggleClick ==
    /\ Len(themeLog) <= MaxThemeEvents
    /\ currentTheme' = FlipTheme(currentTheme)
    /\ dataTheme' = currentTheme'
    /\ storedTheme' = currentTheme'
    /\ iconText' = updateThemeIcon(currentTheme')
    /\ themeLog' = Append(themeLog, LogEntry("click", dataTheme'))
    /\ UNCHANGED prefersDark
    /\ UNCHANGED <<navVars, formVars, restVars>>

\* The 'change' handler of the prefers-color-scheme media query, for an event
\* whose e.matches is `matches`.
SystemThemeChange(matches) ==
    /\ Len(themeLog) <= MaxThemeEvents
    /\ prefersDark' = matches
    /\ IF FollowsSystem(storedTheme)
         THEN LET newTheme == IF matches THEN "dark" ELSE "light"
              IN /\ dataTheme' = newTheme
                 /\ iconText' = updateThemeIcon(newTheme)
         ELSE UNCHANGED <<dataTheme, iconText>>
    /\ themeLog' = Append(themeLog, LogEntry("system", dataTheme'))
    /\ UNCHANGED <<storedTheme, currentTheme>>
    /\ UNCHANGED <<navVars, formVars, restVars>>

\* The browser fires 'change' when the query's result flips.
SystemPreferenceFlips == SystemThemeChange(~prefersDark)

\* ------------------------------------------------------------------------
\* The statements of the page-ready handler
\* ------------------------------------------------------------------------

\* The text the markup gives the .theme-icon.
MarkupIconText == "<markup>"

\* The theme state before initTheme runs: no data-theme attribute, the icon as
\* the markup has it, whatever the storage and the system preference hold.
ThemeInMarkup ==
    /\ storedTheme \in StoredThemes
    /\ prefersDark \in BOOLEAN
    /\ currentTheme = NULL
    /\ dataTheme = NULL
    /\ iconText = IF "themeIcon" \in present THEN MarkupIconText ELSE NULL
    /\ themeLog = <<>>

\* The links before initActiveNavHighlight runs: as the markup marks them.
NavInMarkup ==
    /\ sections = [i \in DOMAIN SectionIds |-> [id |-> SectionIds[i], top |-> 0, height |-> 0]]
    /\ scrollY = 0
    /\ navActive \in MarkupActive
    /\ navLastOp = "markup"

\* The animations before their observers are created.
AnimInMarkup ==
    /\ statText = <<"0">>
    /\ statSeen = <<>>
    /\ counted = FALSE
    /\ timersStarted = 0
    /\ timerOn = FALSE
    /\ counter = NoCounter
    /\ updates = 0
    /\ fadeSeen = <<>>
    /\ fadeObserved = FALSE
    /\ fadeVisible = FALSE
    /\ fadeIsHero = FALSE

\* initTheme(): without #themeToggle it raises at its second line; with it,
\* the theme is resolved and applied, and updateThemeIcon raises where the
\* button has no .theme-icon.
RunInitTheme ==
    IF "themeToggle" \notin present
      THEN UNCHANGED themeVars
      ELSE /\ currentTheme' = ResolveTheme(storedTheme, prefersDark)
           /\ dataTheme' = currentTheme'
           /\ iconText' = IF "themeIcon" \in present THEN updateThemeIcon(currentTheme') ELSE iconText
           /\ themeLog' = <<LogEntry("init", dataTheme')>>
           /\ UNCHANGED <<storedTheme, prefersDark>>

\* initActiveNavHighlight(): the initial updateActiveNav().
RunInitActiveNavHighlight ==
    /\ navActive' = updateActiveNav(navActive, scrollY)
    /\ navLastOp' = "init"
    /\ UNCHANGED <<sections, scrollY>>

\* initScrollAnimations(): the observer starts observing the .fade-in element.
RunInitScrollAnimations ==
    /\ fadeObserved' = TRUE
    /\ UNCHANGED <<statText, statSeen, counted, timersStarted, timerOn, counter, updates,
                   fadeSeen, fadeVisible, fadeIsHero>>

\* What statement fn does to the page.
StatementEffect(fn) ==
    /\ IF fn = "initTheme" THEN RunInitTheme ELSE UNCHANGED themeVars
    /\ IF fn = "initActiveNavHighlight" THEN RunInitActiveNavHighlight ELSE UNCHANGED navVars
    /\ IF fn = "initScrollAnimations" THEN RunInitScrollAnimations ELSE UNCHANGED animVars

\* The next statement of the handler runs.
RunInitStatement ==
    /\ ~initThrew
    /\ initPc <= Len(InitOrder)
    /\ LET fn == InitOrder[initPc]
       IN /\ IF Throws(fn, present)
               THEN /\ initThrew' = TRUE
                    /\ UNCHANGED <<initPc, initialized, wired>>
               ELSE /\ initPc' = initPc + 1
                    /\ initialized' = initialized \cup {fn}
                    /\ wired' = IF Attaches(fn, present) THEN wired \cup {fn} ELSE wired
                    /\ UNCHANGED initThrew
          /\ StatementEffect(fn)
    /\ UNCHANGED present
    /\ UNCHANGED <<formVars, menuVars>>

InitTheme == initTheme /\ NavAtRest /\ FormAtRest /\ RestAtRest
NextTheme ==
    \/ ThemeToggleClick
    \/ SystemPreferenceFlips
SpecTheme == InitTheme /\ [][NextTheme]_vars

ThemeAtRest ==
    /\ storedTheme = NULL
    /\ prefersDark = FALSE
    /\ currentTheme = "light"
    /\ dataTheme = "light"
    /\ iconText = updateThemeIcon("light")
    /\ themeLog = <<LogEntry("init", "light")>>

InitNav == initActiveNavHighlight /\ ThemeAtRest /\ FormAtRest /\ RestAtRest
NextNav == \E y \in ScrollOffsets : Scroll(y)
SpecNav == InitNav /\ [][NextNav]_vars

\* The validation of one filled-in form: isValidEmail on its email text and
\* the submit handler.
InitValidation ==
    /\ initFormValidation
    /\ fields \in ValidationInputs
    /\ ThemeAtRest
    /\ NavAtRest
    /\ RestAtRest
NextValidation ==
    \/ CallIsValidEmail
    \/ Submit
    \/ MessageTimeout
SpecValidation == InitValidation /\ [][NextValidation]_vars

\* The contact form in use: typing, submitting, message timers firing.
InitForm == FormAtRest /\ ThemeAtRest /\ NavAtRest /\ RestAtRest
NextForm ==
    \/ \E field \in {"name", "email", "subject", "message"} :
          \E value \in Typed(field) : Type(field, value)
    \/ Submit
    \/ MessageTimeout
SpecForm == InitForm /\ [][NextForm]_vars

\* The contact form in time: every removal timer fires when its 5000 ms are
\* over, or later.
NextFormTimed ==
    \/ \E field \in {"name", "email", "subject", "message"} :
          \E value \in Typed(field) : Type(field, value)
    \/ Submit
    \/ TimePasses
    \/ MessageTimerDue
SpecFormTimed == InitForm /\ [][NextFormTimed]_vars

\* Page-ready initialization on any markup.
InitPage == PageReady /\ ThemeInMarkup /\ NavInMarkup /\ FormAtRest /\ AnimInMarkup /\ MenuAtRest
NextPage == RunInitStatement
SpecPage == InitPage /\ [][NextPage]_vars

\* The counter and fade-in animations under any intersection reports.
InitAnim == initAnimations /\ ThemeAtRest /\ NavAtRest /\ FormAtRest /\ InitAtRest /\ MenuAtRest
NextAnim ==
    \/ \E isIntersecting \in BOOLEAN : StatIntersection(isIntersecting)
    \/ CounterTick
    \/ \E isIntersecting \in BOOLEAN : FadeIntersection(isIntersecting)
    \/ WindowLoad
SpecAnim == InitAnim /\ [][NextAnim]_vars

\* The counter alone (the fade-in element left as the page loads it), with
\* the interval timer firing for as long as it is set.
InitCounter == InitAnim /\ fadeIsHero = FALSE
NextCounter ==
    \/ \E isIntersecting \in BOOLEAN : StatIntersection(isIntersecting)
    \/ CounterTick
SpecCounterFair == InitCounter /\ [][NextCounter]_vars /\ WF_vars(CounterTick)

\* The mobile menu and the link clicks, on a page initialized without error,
\* under any clicks and resizes.
InitMenu ==
    /\ initMobileMenu
    /\ \E els \in MenuMarkups : PageInitialized(els)
    /\ sections = StackedLayout
    /\ scrollY = 0
    /\ navActive = updateActiveNav([k \in Links |-> FALSE], 0)
    /\ navLastOp = "init"
    /\ ThemeAtRest
    /\ FormAtRest
    /\ AnimAtRest
NextMenu ==
    \/ ToggleButtonClick
    \/ MenuPanelClick
    \/ OutsideClick
    \/ \E k \in Links : NavLinkClick(k)
    \/ \E innerWidth \in ResizeWidths : Resize(innerWidth)
SpecMenu == InitMenu /\ [][NextMenu]_vars

\* ------------------------------------------------------------------------
\* Claims about the theme coordinator (checked under SpecTheme)
\* ------------------------------------------------------------------------

SystemTheme == IF prefersDark THEN "dark" ELSE "light"
LastThemeEvent == themeLog[Len(themeLog)]
ClickedBefore(n) == \E i \in 1..n : themeLog[i].op = "click"

\* C1: in every state reachable after initTheme, the displayed theme
\* (data-theme) is the persisted 'theme' value when one is stored and the
\* current system preference otherwise; with nothing persisted and a dark
\* system preference the initial theme is dark.
C1_DisplayedThemeIsStoredElseSystem ==
    /\ storedTheme # NULL => dataTheme = storedTheme
    /\ storedTheme = NULL => dataTheme = SystemTheme
    /\ (Len(themeLog) = 1 /\ storedTheme = NULL /\ prefersDark) => dataTheme = "dark"

\* C1's case: nothing is persisted and a system change to dark has been handled.
C1_Witness ==
    /\ storedTheme = NULL
    /\ prefersDark
    /\ LastThemeEvent.op = "system"
    /\ dataTheme = "dark"

\* C2: whenever the last two events are toggle clicks, the displayed theme is
\* the one that was displayed before the first of them, and the persisted
\* value is the theme the second click set.
C2_TwoClicksRestoreTheme ==
    LET n == Len(themeLog)
    IN (n >= 3 /\ themeLog[n].op = "click" /\ themeLog[n - 1].op = "click")
         => /\ dataTheme = themeLog[n - 2].shown
            /\ storedTheme = themeLog[n].shown

\* C3: once a toggle click has been handled, a system-preference change
\* event leaves the displayed theme, the icon and the persisted value as
\* they were.
C3_SystemChangeIgnoredAfterClick ==
    [][ ( /\ ClickedBefore(Len(themeLog))
          /\ Len(themeLog') = Len(themeLog) + 1
          /\ themeLog'[Len(themeLog')].op = "system" )
        => UNCHANGED <<dataTheme, iconText, storedTheme>> ]_vars

\* C3's case: a system-preference change handled after a toggle click.
C3_Witness ==
    /\ Len(themeLog) >= 3
    /\ LastThemeEvent.op = "system"
    /\ ClickedBefore(Len(themeLog) - 1)
    /\ prefersDark # (dataTheme = "dark")

\* ------------------------------------------------------------------------
\* Claims about the active-navigation highlight (checked under SpecNav)
\* ------------------------------------------------------------------------

\* The sections whose bounds [top, top + height) hold scrollY + 100.
SectionsAtScroll ==
    {i \in DOMAIN sections :
        /\ sections[i].top <= scrollY + 100
        /\ scrollY + 100 < sections[i].top + sections[i].height}

LastSectionAtScroll ==
    CHOOSE i \in SectionsAtScroll : \A j \in SectionsAtScroll : j <= i

ActiveLinks == {k \in Links : navActive[k]}

LinksTo(id) == {k \in Links : NavHrefs[k] = "#" \o id}

\* C8: after the initial update and after every scroll event at an offset of
\* 100 or more, if some section's bounds hold offset + 100, the active links
\* are exactly the link that targets the last such section in document order.
C8_LastMatchingSectionIsActive ==
    (scrollY >= 100 /\ SectionsAtScroll # {})
        => ActiveLinks = LinksTo(sections[LastSectionAtScroll].id)

\* C8's case: a scroll event to an offset of 100 or more where offset + 100
\* lies in two overlapping sections, and the link of the later one is active.
C8_Witness ==
    /\ navLastOp = "scroll"
    /\ scrollY >= 100
    /\ Cardinality(SectionsAtScroll) >= 2
    /\ LastSectionAtScroll = 2
    /\ ActiveLinks = {2}

\* C9: after the initial update and after every scroll event at an offset
\* below 100, the active links are exactly the link whose target is '#home',
\* whatever the section bounds are.
C9_HomeActiveNearTop ==
    scrollY < 100 => ActiveLinks = {k \in Links : NavHrefs[k] = "#home"}

\* C9's case: a scroll event to an offset below 100 while offset + 100 lies in
\* a section other than home and in no part of the home section.
C9_Witness ==
    /\ navLastOp = "scroll"
    /\ scrollY < 100
    /\ SectionsAtScroll # {}
    /\ 1 \notin SectionsAtScroll
    /\ ActiveLinks = {1}

\* C10: in every state reachable after initActiveNavHighlight, at most one
\* navigation link is active.
C10_AtMostOneActiveLink == Cardinality(ActiveLinks) <= 1

\* C10's case: after a scroll event into a gap between sections (no section
\* holds offset + 100, offset of 100 or more) one link is still active.
C10_Witness ==
    /\ navLastOp = "scroll"
    /\ scrollY >= 100
    /\ SectionsAtScroll = {}
    /\ Cardinality(ActiveLinks) = 1

\* ------------------------------------------------------------------------
\* Claims about the contact form (checked under SpecValidation and SpecForm)
\* ------------------------------------------------------------------------

Blank(c) == c \in {" ", "\t", "\n"}

\* str without its leading and trailing white space.
Stripped(str) ==
    LET solid == {i \in DOMAIN str : ~Blank(str[i])}
        first == CHOOSE i \in solid : \A j \in solid : i <= j
        last == CHOOSE i \in solid : \A j \in solid : j <= i
    IN IF solid = {} THEN <<>> ELSE SubSeq(str, first, last)

\* str is: one or more characters that are neither white space nor '@', an
\* '@', one or more such characters, a '.', one or more such characters.
WellFormedEmail(str) ==
    \E at, dot \in DOMAIN str :
        /\ 1 < at /\ at + 1 < dot /\ dot < Len(str)
        /\ str[at] = "@"
        /\ str[dot] = "."
        /\ \A k \in DOMAIN str \ {at} : ~Blank(str[k]) /\ str[k] # "@"

\* Whether the form f violates the rule that text reports.
RuleViolated(text, f) ==
    CASE text = "Name is required" -> Stripped(f.name) = <<>>
      [] text = "Email is required" -> Stripped(f.email) = <<>>
      [] text = "Please enter a valid email address" ->
            Stripped(f.email) # <<>> /\ ~WellFormedEmail(Stripped(f.email))
      [] text = "Subject is required" -> Stripped(f.subject) = <<>>
      [] text = "Message is required" -> Stripped(f.message) = <<>>
      [] text = "Message must be at least 10 characters long" ->
            Stripped(f.message) # <<>> /\ Len(Stripped(f.message)) < 10

\* The reports of the rules f violates, in the order name, email, subject, message.
ExpectedErrors(f) ==
    SelectSeq(<<"Name is required", "Email is required",
                "Please enter a valid email address", "Subject is required",
                "Message is required", "Message must be at least 10 characters long">>,
              LAMBDA text : RuleViolated(text, f))

\* The texts of list with a '<br>' between neighbours.
WithBreaks(list) ==
    [i \in 1..(2 * Len(list) - 1) |-> IF i % 2 = 1 THEN list[(i + 1) \div 2] ELSE "<br>"]

\* A step that is a form submission: one more message element was created.
IsSubmission == created' = created + 1

NewestMessage == formMessages[Len(formMessages)]

AllButMessageValid(f) ==
    /\ Stripped(f.name) # <<>>
    /\ Stripped(f.subject) # <<>>
    /\ WellFormedEmail(Stripped(f.email))

\* C4: for every submission, the error text displayed lists exactly the
\* reports of the violated rules, in the order name, email, subject, message;
\* all-empty fields give the four 'required' reports, a trimmed message of
\* length 9 beside valid fields gives only the length report, and one of
\* length 10 gives no violation.
C4_ErrorsAreTheViolatedRulesInOrder ==
    [][ IsSubmission =>
          /\ ExpectedErrors(fields) # <<>> =>
                /\ NewestMessage'.type = "error"
                /\ NewestMessage'.html = WithBreaks(ExpectedErrors(fields))
          /\ ExpectedErrors(fields) = <<>> => NewestMessage'.type # "error"
          /\ (/\ fields.name = <<>> /\ fields.email = <<>>
              /\ fields.subject = <<>> /\ fields.message = <<>>) =>
                NewestMessage'.html =
                    <<"Name is required", "<br>", "Email is required", "<br>",
                      "Subject is required", "<br>", "Message is required">>
          /\ (AllButMessageValid(fields) /\ Len(Stripped(fields.message)) = 9) =>
                NewestMessage'.html = <<"Message must be at least 10 characters long">>
          /\ (AllButMessageValid(fields) /\ Len(Stripped(fields.message)) = 10) =>
                NewestMessage'.type # "error"
      ]_vars

\* C4's case: a form whose message is 9 characters between two spaces, with
\* the other fields valid, was submitted and only the length report is shown.
C4_Witness ==
    /\ created = 1
    /\ AllButMessageValid(fields)
    /\ fields.message = <<" ">> \o Xs(9) \o <<" ">>
    /\ formMessages # <<>>
    /\ NewestMessage.type = "error"
    /\ NewestMessage.html = <<"Message must be at least 10 characters long">>

\* C5: isValidEmail accepts exactly the well-formed strings, and a form with
\* the email 'a@b' and otherwise valid fields, once submitted, shows exactly
\* the report of the email rule.
C5_EmailShape ==
    /\ \A i \in DOMAIN emailCall :
          emailCall[i].result = WellFormedEmail(emailCall[i].email)
    /\ (/\ fields = [name |-> <<"a">>, email |-> <<"a", "@", "b">>,
                     subject |-> <<"s">>, message |-> Xs(10)]
        /\ formMessages # <<>>)
          => /\ NewestMessage.type = "error"
             /\ NewestMessage.html = <<"Please enter a valid email address">>

\* C5's case: isValidEmail has rejected 'a@b' and the form holding it beside
\* valid fields has been submitted.
C5_Witness ==
    /\ emailCall = <<[email |-> <<"a", "@", "b">>, result |-> FALSE]>>
    /\ fields.email = <<"a", "@", "b">>
    /\ created = 1
    /\ formMessages # <<>>
    /\ NewestMessage.html = <<"Please enter a valid email address">>

\* C5's other case: isValidEmail has accepted a string.
C5_AcceptedWitness ==
    emailCall = <<[email |-> <<"a", "@", ".", ".", "b">>, result |-> TRUE]>>

NoViolation(f) == ExpectedErrors(f) = <<>>

AllFieldsEmpty(f) ==
    f.name = <<>> /\ f.email = <<>> /\ f.subject = <<>> /\ f.message = <<>>

\* C6: a submission shows the fixed success message and clears the four
\* fields exactly when the form violates no rule; a rejected submission shows
\* an error message and leaves the field values as they were; either way the
\* default submission is cancelled.
C6_SuccessClearsRejectionKeeps ==
    [][ IsSubmission =>
          /\ defaultPrevented'
          /\ NoViolation(fields) <=>
                /\ NewestMessage'.type = "success"
                /\ NewestMessage'.html =
                      <<"Thank you for your message! I'll get back to you soon.">>
                /\ AllFieldsEmpty(fields')
          /\ ~NoViolation(fields) =>
                /\ NewestMessage'.type = "error"
                /\ fields' = fields
      ]_vars

\* C6's case: a second submission, made while the first message's timer was
\* still pending, was rejected and left its non-empty fields in place.
C6_Witness ==
    /\ created = 2
    /\ Len(timers) = 2
    /\ defaultPrevented
    /\ formMessages # <<>>
    /\ NewestMessage.type = "error"
    /\ fields.name # <<>>
    /\ fields.message # <<>>

\* C6's other case: an accepted submission cleared the form.
C6_AcceptedWitness ==
    /\ created >= 1
    /\ formMessages # <<>>
    /\ NewestMessage.type = "success"
    /\ AllFieldsEmpty(fields)

\* C7: at most one form message is displayed at any moment, and right after
\* a submission the displayed message is the one that submission created,
\* with that submission's outcome.
C7_OneMessageTheLatest ==
    /\ [](Len(formMessages) <= 1)
    /\ [][ IsSubmission =>
             /\ Len(formMessages') = 1
             /\ formMessages'[1].id = created'
             /\ formMessages'[1].type =
                   IF NoViolation(fields) THEN "success" ELSE "error"
         ]_vars

\* C7's case: a submission made while the message of the previous one was
\* still displayed (its timer pending) shows only its own message.
C7_Witness ==
    /\ created >= 2
    /\ Len(timers) >= 2
    /\ Len(formMessages) = 1
    /\ formMessages[1].id = created

\* C7's other case: the timer of a replaced message has fired and the newer
\* message is still displayed.
C7_StaleTimerWitness ==
    /\ created = 2
    /\ timers = <<2>>
    /\ Len(formMessages) = 1
    /\ formMessages[1].id = 2

\* ------------------------------------------------------------------------
\* Claims about page-ready initialization (checked under SpecPage)
\* ------------------------------------------------------------------------

InitOver == initThrew \/ initPc > Len(InitOrder)

\* C11: whatever expected elements the page lacks, page-ready initialization
\* raises no error and runs every statement: a component whose element is
\* absent skips its behaviour and the components after it are still
\* initialized.
C11_InitNeverThrows ==
    /\ ~initThrew
    /\ InitOver => initialized = {InitOrder[i] : i \in DOMAIN InitOrder}

\* ------------------------------------------------------------------------
\* Claims about the visibility-triggered animations (checked under SpecAnim)
\* ------------------------------------------------------------------------

\* A counter animation was started for a positive integer target.
PositiveTargetStarted ==
    timersStarted >= 1 /\ ~counter.target.nan /\ IntOf(counter.target) > 0

\* C12: a counter started for a positive integer target makes exactly
\* CounterSteps display updates: the k-th, for k < CounterSteps, shows
\* floor(k * target / CounterSteps) and the suffix with the timer still
\* running, the last shows the target and the suffix, and with it the timer is
\* stopped, so that there is no further update.
C12_FiftyUpdatesFloorThenTarget ==
    PositiveTargetStarted =>
        LET target == IntOf(counter.target)
        IN /\ updates <= CounterSteps
           /\ updates < CounterSteps => timerOn
           /\ updates \in 1..(CounterSteps - 1) =>
                  statText = Decimal((updates * target) \div CounterSteps) \o counter.suffix
           /\ updates = CounterSteps =>
                  ~timerOn /\ statText = Decimal(target) \o counter.suffix

\* C13: whatever entries and exits the observers report, no more than one
\* interval timer is ever started for the stat element, and a fade-in element
\* that is visible stays visible.
C13_TriggeredAtMostOnce ==
    [][timersStarted' <= 1 /\ (fadeVisible => fadeVisible')]_vars

\* C13's case: the stat element entered, left and re-entered visibility while
\* its only animation is still running, and the fade-in element, made visible
\* by its one entry, is no longer observed.
C13_Witness ==
    /\ statSeen = <<TRUE, FALSE, TRUE>>
    /\ timerOn
    /\ updates > 0
    /\ timersStarted = 1
    /\ fadeVisible
    /\ ~fadeObserved

\* C20: a running counter animation is eventually stopped, whatever the text
\* of the stat element (checked under SpecCounterFair, where the interval timer
\* keeps ticking).
C20_CounterTerminates == timerOn ~> ~timerOn

\* ------------------------------------------------------------------------
\* Claim about the theme coordinator's in-memory theme (checked under SpecTheme)
\* ------------------------------------------------------------------------

\* C19: after initTheme and any toggle clicks and system-preference changes,
\* the current theme the coordinator holds is the theme the document displays.
C19_CurrentThemeIsDisplayed == currentTheme = dataTheme

\* ------------------------------------------------------------------------
\* Claims about the mobile menu and smooth scrolling (checked under SpecMenu)
\* ------------------------------------------------------------------------

\* The last event handled, once there is one.
MenuEventHandled == menuLog # <<>>
LastMenuEvent == menuLog[Len(menuLog)]

MenuClosed == ~menuActive /\ ~toggleActive

\* The page has the toggle button and the menu panel.
HasMenu == "mobileMenuToggle" \in present /\ "navMenu" \in present

\* C14: after a resize event reporting a width above 768 neither the menu
\* panel nor the toggle button is active, whatever they were before; after a
\* resize to 768 or less both are as they were before it.
C14_WideResizeClosesMenu ==
    (MenuEventHandled /\ LastMenuEvent.kind = "resize") =>
        IF LastMenuEvent.innerWidth > 768
          THEN MenuClosed
          ELSE menuActive = LastMenuEvent.wasMenu /\ toggleActive = LastMenuEvent.wasToggle

\* C14's case: the menu was open when a resize reported a width above 768.
C14_Witness ==
    /\ MenuEventHandled
    /\ LastMenuEvent.kind = "resize"
    /\ LastMenuEvent.innerWidth > 768
    /\ LastMenuEvent.wasMenu
    /\ LastMenuEvent.wasToggle
    /\ MenuClosed

\* C14's other case: the menu was open when a resize reported exactly 768,
\* and it is still open.
C14_NarrowWitness ==
    /\ MenuEventHandled
    /\ LastMenuEvent.kind = "resize"
    /\ LastMenuEvent.innerWidth = 768
    /\ menuActive
    /\ toggleActive

\* The last click landed inside the menu panel or the toggle button.
LastClickInside ==
    \/ LastMenuEvent.kind \in {"toggleClick", "panelClick"}
    \/ LastMenuEvent.kind = "navLinkClick" /\ linksInMenu /\ "navMenu" \in present

LastClickOutside ==
    \/ LastMenuEvent.kind = "outsideClick"
    \/ LastMenuEvent.kind = "navLinkClick" /\ ~(linksInMenu /\ "navMenu" \in present)

\* C15: after a click outside both the menu panel and the toggle button the
\* menu is closed, and for a click inside either of them the document's click
\* handler does not close it.
C15_OutsideClickClosesMenu ==
    MenuEventHandled =>
        /\ LastClickOutside => MenuClosed
        /\ LastClickInside => "document" \notin LastMenuEvent.closedBy

\* C15's case: the menu was open when a click landed outside both elements,
\* and the document's handler closed it.
C15_Witness ==
    /\ MenuEventHandled
    /\ LastMenuEvent.kind = "outsideClick"
    /\ LastMenuEvent.wasMenu
    /\ LastMenuEvent.closedBy = {"document"}
    /\ MenuClosed

\* C15's other case: a click on the panel of the open menu left it open.
C15_InsideWitness ==
    /\ MenuEventHandled
    /\ LastMenuEvent.kind = "panelClick"
    /\ menuActive
    /\ toggleActive

\* The last two events were clicks on the toggle button.
TwoToggleClicks ==
    /\ Len(menuLog) >= 2
    /\ menuLog[Len(menuLog) - 1].kind = "toggleClick"
    /\ LastMenuEvent.kind = "toggleClick"

\* C16: on a page with the toggle button and the menu panel, the two carry
\* the same active state at all times, a click on the toggle button leaves
\* the menu open if it was closed and closed if it was open, and two
\* consecutive clicks on it, the first on a closed menu, leave it closed.
C16_ToggleClickFlipsMenu ==
    HasMenu =>
        /\ menuActive = toggleActive
        /\ (MenuEventHandled /\ LastMenuEvent.kind = "toggleClick") =>
               menuActive = ~LastMenuEvent.wasMenu
        /\ (TwoToggleClicks /\ ~menuLog[Len(menuLog) - 1].wasMenu) => MenuClosed

\* C16's case: two consecutive clicks on the toggle button, the first on the
\* closed menu, and the menu is closed again.
C16_Witness ==
    /\ HasMenu
    /\ TwoToggleClicks
    /\ ~menuLog[Len(menuLog) - 1].wasMenu
    /\ LastMenuEvent.wasMenu
    /\ MenuClosed

\* The last event was a click on a link whose href is a same-page anchor.
AnchorLinkClicked ==
    /\ MenuEventHandled
    /\ LastMenuEvent.kind = "navLinkClick"
    /\ StartsWithHash(LastMenuEvent.href)

\* The click requested a smooth scroll, and every request it made was to the
\* top offset of the element the href names minus the header's height.
ScrolledToTarget ==
    /\ ElementExists(TargetId(LastMenuEvent.href))
    /\ LastMenuEvent.scrolls # <<>>
    /\ \A i \in DOMAIN LastMenuEvent.scrolls :
          LastMenuEvent.scrolls[i] = OffsetTop(TargetId(LastMenuEvent.href)) - headerHeight

\* C17: every click on a link with a same-page anchor href cancels the
\* default jump, requests the smooth scroll to the top offset of the element
\* the href names minus the header's height, and leaves the menu closed,
\* whatever the menu state was before the click.
C17_AnchorClickScrollsAndCloses ==
    AnchorLinkClicked =>
        /\ LastMenuEvent.prevented
        /\ ScrolledToTarget
        /\ MenuClosed

\* ------------------------------------------------------------------------
\* Claim about the removal timers in time (checked under SpecFormTimed)
\* ------------------------------------------------------------------------

\* The age of the timer set by the submission that displayed message id, where
\* it is pending.
PendingAges(id) == {timerAge[i] : i \in {j \in DOMAIN timers : timers[j] = id}}

\* Every displayed message has its own removal timer pending, and the message
\* of the latest submission is displayed for as long as its own timer is
\* pending.
OwnTimerPending ==
    /\ \A i \in DOMAIN formMessages : PendingAges(formMessages[i].id) # {}
    /\ PendingAges(created) # {} =>
          \E i \in DOMAIN formMessages : formMessages[i].id = created

\* C18 as stated: every displayed message has its own removal timer pending,
\* set no more than 5000 ms ago, so it is removed no later than 5000 ms after
\* its submission; and the message of the latest submission is displayed for
\* as long as its own timer is pending, whatever earlier timers have fired.
C18_RemovedByOwnTimerInTime ==
    /\ OwnTimerPending
    /\ \A i \in DOMAIN formMessages :
          \A age \in PendingAges(formMessages[i].id) : age <= 5000

\* C18, amended: at every step, every displayed message has its own removal
\* timer pending and the latest message is displayed while its own timer is
\* pending, whatever earlier timers have fired; and a timer's callback runs
\* only once 5000 ms or more have passed since its submission.
C18_RemovedByOwnTimerNoEarlier ==
    [][ /\ OwnTimerPending'
        /\ Len(timers') < Len(timers) => Head(timerAge) >= 5000 ]_vars

\* C18's case: the timer of an earlier submission has fired, and the message
\* of a later submission, whose own timer is overdue, is still displayed.
C18_Witness ==
    /\ created = 2
    /\ timers = <<2>>
    /\ timerAge[1] > 5000
    /\ Len(formMessages) = 1
    /\ formMessages[1].id = 2

====
